---- MODULE Spec2Model ----
(***************************************************************************)
(* The invoice / payment manager of derzi_master_book                      *)
(* (payments/payment_manager.py, payments/models.py) together with the     *)
(* order store it reads (orders/order_manager.py).                         *)
(*                                                                         *)
(* The three module-level lists orders_db, invoices_db and payments_db are *)
(* the state.  Every public function is one action; an action records in   *)
(* `last` the function called, what it returned or raised, the invoice it  *)
(* found or whose payment it found (0 when none) and the status that       *)
(* invoice had before the call.  Decimal amounts are integers, dates are   *)
(* day numbers, uuid4() is a counter that never repeats.                   *)
(*                                                                         *)
(* The settings manager (settings/settings_manager.py, settings/models.py) *)
(* is modelled beside it: its state is the settings file and the module's  *)
(* current_settings.  So is the booking manager                            *)
(* (bookings/booking_manager.py, bookings/models.py), whose state is the   *)
(* list appointments_db.                                                   *)
(***************************************************************************)
EXTENDS Integers, Sequences, FiniteSets, TLC

VARIABLES
    orders_db,      \* order_manager.orders_db: list of Order
    invoices_db,    \* payment_manager.invoices_db: list of Invoice
    payments_db,    \* payment_manager.payments_db: list of Payment
    uuids,          \* how many uuid4() values each constructor has drawn
    last,           \* the last call: [op, outcome, invoice, was]
    scen,           \* position of the run in the scenario of test_invoice_status_after_payment
    settings_file,      \* what SETTINGS_FILE_PATH holds
    current_settings,   \* settings_manager.current_settings: None or an AppSettings
    appointments_db     \* booking_manager.appointments_db: list of Appointment

vars == <<orders_db, invoices_db, payments_db, uuids, last, scen,
          settings_file, current_settings, appointments_db>>

(***************************************************************************)
(* Bounds of the model.                                                    *)
(***************************************************************************)
MaxOrders == 1
MaxInvoices == 2
MaxPayments == 3
MaxAppointments == 2

(***************************************************************************)
(* Python values.                                                          *)
(***************************************************************************)
\* Python's None and a present optional value.
None == <<>>
Some(x) == <<x>>

\* date.today(); dates are day numbers and a run stays within one day.
Today == 10
Yesterday == Today - 1
Tomorrow == Today + 1

STATUS_DRAFT == "Draft"
STATUS_SENT == "Sent"
STATUS_PAID == "Paid"
STATUS_PARTIAL == "Partial"
STATUS_OVERDUE == "Overdue"
STATUS_CANCELLED == "Cancelled"
VALID_STATUSES ==
    {STATUS_DRAFT, STATUS_SENT, STATUS_PAID, STATUS_PARTIAL, STATUS_OVERDUE, STATUS_CANCELLED}

METHOD_CASH == "Cash"
METHOD_CREDIT_CARD == "Credit Card"
METHOD_BANK_TRANSFER == "Bank Transfer"
METHOD_OTHER == "Other"
VALID_PAYMENT_METHODS ==
    {METHOD_CASH, METHOD_CREDIT_CARD, METHOD_BANK_TRANSFER, METHOD_OTHER}

(***************************************************************************)
(* Identifiers.  An id argument is [u, form]: the 128-bit value u written  *)
(* as a uuid.UUID object ("uuid"), as its canonical lower-case string      *)
(* ("str"), as another string uuid.UUID() accepts, such as upper case      *)
(* ("upper"), or a string that is no UUID at all ("bad").                  *)
(***************************************************************************)
Id(u, form) == [u |-> u, form |-> form]

\* uuid.UUID(str(x)): None stands for the ValueError the callers catch.
ParseUUID(x) == IF x.form = "bad" THEN None ELSE Some(x.u)

\* str(x): a UUID object prints in canonical form, a string is itself.
Str(x) == IF x.form = "uuid" THEN Id(x.u, "str") ELSE x

(***************************************************************************)
(* List helpers.                                                           *)
(***************************************************************************)
\* list.remove(element at position i)
RemoveAt(s, i) == [k \in 1..(Len(s) - 1) |-> IF k < i THEN s[k] ELSE s[k + 1]]

\* position of the first element satisfying the test, 0 when there is none
FirstIndex(s, Test(_)) ==
    IF \E k \in 1..Len(s) : Test(s[k])
    THEN CHOOSE k \in 1..Len(s) : Test(s[k]) /\ \A j \in 1..(k - 1) : ~Test(s[j])
    ELSE 0

\* Error kinds of the raised ValueErrors, by the raise statement.
NotFound == "NotFound"
InvalidArgument == "InvalidArgument"
InvalidState == "InvalidState"
Errors == {NotFound, InvalidArgument, InvalidState}

(***************************************************************************)
(* Order store.                                                            *)
(***************************************************************************)
\* get_order_by_id: order.order_id == order_id, an equality of a UUID object
\* with the argument as given, so a string never matches.
OrderIndex(db, oid) ==
    LET Hit(o) == oid.form = "uuid" /\ o.order_id = oid.u
    IN  FirstIndex(db, Hit)

(***************************************************************************)
(* Invoice and payment lookups.                                            *)
(***************************************************************************)
\* get_invoice_by_id
InvoiceIndex(db, iid) ==
    LET Hit(inv) == ParseUUID(iid) = Some(inv.invoice_id)
    IN  FirstIndex(db, Hit)

\* get_payment_by_id
PaymentIndex(db, pid) ==
    LET Hit(p) == ParseUUID(pid) = Some(p.payment_id)
    IN  FirstIndex(db, Hit)

\* get_payments_for_invoice: str(payment.invoice_id) == str(invoice_id)
PaymentsForInvoice(db, iid) ==
    LET Hit(p) == Str(p.invoice_id) = Str(iid)
    IN  SelectSeq(db, Hit)

\* sum(p.amount_paid for p in payments)
RECURSIVE SumPaid(_)
SumPaid(ps) == IF ps = <<>> THEN 0 ELSE Head(ps).amount_paid + SumPaid(Tail(ps))

(***************************************************************************)
(* Validation in the constructors.                                         *)
(***************************************************************************)
\* a mutant of InvoiceInitError: the test of the total is lost
InvoiceInitErrorNoTotalTest(total_amount, status) ==
    IF status \notin VALID_STATUSES THEN InvalidArgument ELSE "ok"

\* Invoice.__init__: "ok" or the error raised
InvoiceInitError(total_amount, status) ==
    IF total_amount < 0 THEN InvalidArgument
    ELSE IF status \notin VALID_STATUSES THEN InvalidArgument
    ELSE "ok"

\* a mutant of PaymentInitError: the amount test is "< 0"
PaymentInitErrorZeroAllowed(amount_paid, payment_method) ==
    IF amount_paid < 0 THEN InvalidArgument
    ELSE IF payment_method \notin VALID_PAYMENT_METHODS THEN InvalidArgument
    ELSE "ok"

\* a mutant of PaymentInitError: the amount test is lost
PaymentInitErrorNoAmountTest(amount_paid, payment_method) ==
    IF payment_method \notin VALID_PAYMENT_METHODS THEN InvalidArgument
    ELSE "ok"

\* Payment.__init__: "ok" or the error raised
PaymentInitError(amount_paid, payment_method) ==
    IF amount_paid <= 0 THEN InvalidArgument
    ELSE IF payment_method \notin VALID_PAYMENT_METHODS THEN InvalidArgument
    ELSE "ok"

(***************************************************************************)
(* The reconciliation rule of calculate_invoice_status_after_payment.      *)
(***************************************************************************)
\* a mutant of NewStatus: the early return for a Cancelled invoice is lost
NewStatusNoCancelledReturn(status, total_paid, total_amount, due_date) ==
    IF total_paid >= total_amount THEN STATUS_PAID
    ELSE IF total_paid > 0 /\ total_paid < total_amount THEN STATUS_PARTIAL
    ELSE IF total_paid = 0 THEN
        IF due_date < Today /\ status \notin {STATUS_DRAFT, STATUS_SENT} THEN STATUS_OVERDUE
        ELSE IF status = STATUS_PAID \/ status = STATUS_PARTIAL THEN STATUS_SENT
        ELSE status
    ELSE status

\* a mutant of NewStatus: "not in" of the overdue test written as "in"
NewStatusOverdueTestInverted(status, total_paid, total_amount, due_date) ==
    IF status = STATUS_CANCELLED THEN status
    ELSE IF total_paid >= total_amount THEN STATUS_PAID
    ELSE IF total_paid > 0 /\ total_paid < total_amount THEN STATUS_PARTIAL
    ELSE IF total_paid = 0 THEN
        IF due_date < Today /\ status \in {STATUS_DRAFT, STATUS_SENT} THEN STATUS_OVERDUE
        ELSE IF status = STATUS_PAID \/ status = STATUS_PARTIAL THEN STATUS_SENT
        ELSE status
    ELSE status

\* a mutant of NewStatus: an invoice that has lost its payments goes back to
\* Draft
NewStatusEmptiedToDraft(status, total_paid, total_amount, due_date) ==
    IF status = STATUS_CANCELLED THEN status
    ELSE IF total_paid >= total_amount THEN STATUS_PAID
    ELSE IF total_paid > 0 /\ total_paid < total_amount THEN STATUS_PARTIAL
    ELSE IF total_paid = 0 THEN
        IF due_date < Today /\ status \notin {STATUS_DRAFT, STATUS_SENT} THEN STATUS_OVERDUE
        ELSE IF status = STATUS_PAID \/ status = STATUS_PARTIAL THEN STATUS_DRAFT
        ELSE status
    ELSE status

\* a mutant of NewStatus: the case of no payments is tested before the sum
\* is compared with the total amount
NewStatusNoPaymentsFirst(status, total_paid, total_amount, due_date) ==
    IF status = STATUS_CANCELLED THEN status
    ELSE IF total_paid = 0 THEN
        IF due_date < Today /\ status \notin {STATUS_DRAFT, STATUS_SENT} THEN STATUS_OVERDUE
        ELSE IF status = STATUS_PAID \/ status = STATUS_PARTIAL THEN STATUS_SENT
        ELSE status
    ELSE IF total_paid >= total_amount THEN STATUS_PAID
    ELSE IF total_paid > 0 /\ total_paid < total_amount THEN STATUS_PARTIAL
    ELSE status

\* The status the function leaves on an invoice it found: the early return
\* for Cancelled, then the if / elif chain; a chain that takes no branch
\* leaves the status as it is.
NewStatus(status, total_paid, total_amount, due_date) ==
    IF status = STATUS_CANCELLED THEN status
    ELSE IF total_paid >= total_amount THEN STATUS_PAID
    ELSE IF total_paid > 0 /\ total_paid < total_amount THEN STATUS_PARTIAL
    ELSE IF total_paid = 0 THEN
        IF due_date < Today /\ status \notin {STATUS_DRAFT, STATUS_SENT} THEN STATUS_OVERDUE
        ELSE IF status = STATUS_PAID \/ status = STATUS_PARTIAL THEN STATUS_SENT
        ELSE status
    ELSE status

\* calculate_invoice_status_after_payment(iid) as a function of the two
\* stores: the invoice store it leaves.
Reconciled(invs, pays, iid) ==
    LET i == InvoiceIndex(invs, iid)
    IN  IF i = 0 THEN invs
        ELSE [invs EXCEPT ![i].status =
                NewStatus(invs[i].status, SumPaid(PaymentsForInvoice(pays, iid)),
                          invs[i].total_amount, invs[i].due_date)]

(***************************************************************************)
(* The scenario of test_invoice_status_after_payment, as an observer of    *)
(* the calls: step k means the first k steps of the scenario have just     *)
(* been made, in order, on invoice inv.                                    *)
(***************************************************************************)
ScenOff == [step |-> 0, inv |-> 0]

\* the payments in db that refer to invoice u, in whatever form
PaymentsOf(db, u) ==
    LET Hit(p) == ParseUUID(p.invoice_id) = Some(u)
    IN  SelectSeq(db, Hit)

ScenStep(op, args, outcome) ==
    LET u == scen.inv
        k == scen.step
        Adds(amount) ==
            /\ op = "add_payment" /\ outcome = "ok"
            /\ args[1] = Id(u, "uuid") /\ args[2] = amount
        Deletes ==
            /\ op = "delete_payment" /\ outcome = "True"
            /\ LET i == PaymentIndex(payments_db, args[1])
               IN  i # 0 /\ ParseUUID(payments_db[i].invoice_id) = Some(u)
        Lowers ==
            /\ op = "update_payment" /\ outcome = "ok"
            /\ args[2] = Some(10) /\ args[3] = None /\ args[4] = None /\ args[5] = None
            /\ LET i == PaymentIndex(payments_db, args[1])
               IN  /\ i # 0
                   /\ payments_db[i].invoice_id = Id(u, "uuid")
                   /\ payments_db[i].amount_paid = 60
        MovesDue ==
            /\ op = "update_invoice_details" /\ outcome = "ok"
            /\ args[1] = Id(u, "uuid") /\ args[2] = Some(Yesterday) /\ args[3] = None
        Starts ==
            /\ op = "update_invoice_status" /\ outcome = "ok"
            /\ args[1].form = "uuid" /\ args[2] = STATUS_SENT
            /\ LET i == InvoiceIndex(invoices_db, args[1])
               IN  /\ i # 0
                   /\ invoices_db[i].total_amount = 100
                   /\ invoices_db[i].due_date > Today
                   /\ PaymentsOf(payments_db, args[1].u) = <<>>
    IN  IF k = 1 /\ Adds(40) THEN [scen EXCEPT !.step = 2]
        ELSE IF k = 2 /\ Adds(60) THEN [scen EXCEPT !.step = 3]
        ELSE IF k = 3 /\ Lowers THEN [scen EXCEPT !.step = 4]
        ELSE IF k = 4 /\ Deletes THEN [scen EXCEPT !.step = 5]
        ELSE IF k = 5 /\ Deletes THEN [scen EXCEPT !.step = 6]
        ELSE IF k = 6 /\ MovesDue THEN [scen EXCEPT !.step = 7]
        ELSE IF k = 7 /\ Adds(1) THEN [scen EXCEPT !.step = 8]
        ELSE IF k = 8 /\ Deletes THEN [scen EXCEPT !.step = 9]
        ELSE IF Starts THEN [step |-> 1, inv |-> args[1].u]
        ELSE ScenOff

\* the status of invoice u in the store, "-" when it is not there
StatusOf(db, u) ==
    LET Hit(inv) == inv.invoice_id = u
        i == FirstIndex(db, Hit)
    IN  IF i = 0 THEN "-" ELSE db[i].status

\* the call returns or raises: it is recorded, and the observer moves
Returns(op, args, outcome, u) ==
    /\ last' = [op |-> op, outcome |-> outcome, invoice |-> u,
                was |-> StatusOf(invoices_db, u)]
    /\ scen' = ScenStep(op, args, outcome)
    /\ UNCHANGED <<settings_file, current_settings, appointments_db>>

(***************************************************************************)
(* order_manager                                                           *)
(***************************************************************************)
\* add_order(..., price): the deadline is a datetime
add_order(price) ==
    /\ uuids.order < MaxOrders
    /\ orders_db' = Append(orders_db, [order_id |-> uuids.order + 1, price |-> price])
    /\ uuids' = [uuids EXCEPT !.order = @ + 1]
    /\ UNCHANGED <<invoices_db, payments_db>>
    /\ Returns("add_order", <<price>>, "ok", 0)

\* a mutant of update_order_details: the invoices of the order take the new
\* price as their total amount
update_order_detailsSyncsInvoices(oid, price) ==
    LET i == OrderIndex(orders_db, oid)
    IN  /\ orders_db' = IF i # 0 /\ price # None
                        THEN [orders_db EXCEPT ![i].price = price]
                        ELSE orders_db
        /\ invoices_db' =
              IF i # 0 /\ price # None
              THEN [k \in 1..Len(invoices_db) |->
                      IF invoices_db[k].order_id = oid
                      THEN [invoices_db[k] EXCEPT !.total_amount = price[1]]
                      ELSE invoices_db[k]]
              ELSE invoices_db
        /\ UNCHANGED <<payments_db, uuids>>
        /\ Returns("update_order_details", <<oid, price>>, IF i = 0 THEN "None" ELSE "ok", 0)

\* update_order_details(order_id, price=price)
update_order_details(oid, price) ==
    LET i == OrderIndex(orders_db, oid)
    IN  /\ orders_db' = IF i # 0 /\ price # None
                        THEN [orders_db EXCEPT ![i].price = price]
                        ELSE orders_db
        /\ UNCHANGED <<invoices_db, payments_db, uuids>>
        /\ Returns("update_order_details", <<oid, price>>, IF i = 0 THEN "None" ELSE "ok", 0)

\* delete_order(order_id)
delete_order(oid) ==
    LET i == OrderIndex(orders_db, oid)
    IN  /\ orders_db' = IF i # 0 THEN RemoveAt(orders_db, i) ELSE orders_db
        /\ UNCHANGED <<invoices_db, payments_db, uuids>>
        /\ Returns("delete_order", <<oid>>, IF i = 0 THEN "False" ELSE "True", 0)

(***************************************************************************)
(* payment_manager: invoices                                               *)
(***************************************************************************)
\* Decimal(str(price)): None stands for decimal.InvalidOperation, which
\* Decimal("None") raises; the prices of the model are None or numbers.
ToDecimal(price) == IF price = None THEN None ELSE price

\* a mutant of CreateInvoiceError: the test of the price is lost
CreateInvoiceErrorNoPriceTest(oid) ==
    LET i == OrderIndex(orders_db, oid)
    IN  IF i = 0 THEN NotFound
        ELSE IF ToDecimal(orders_db[i].price) = None THEN "InvalidOperation"
        ELSE InvoiceInitError(ToDecimal(orders_db[i].price)[1], STATUS_DRAFT)

\* What create_invoice_for_order raises, "ok" when it raises nothing: the
\* two tests of the function, then Decimal(str(price)) and Invoice.__init__.
CreateInvoiceError(oid) ==
    LET i == OrderIndex(orders_db, oid)
    IN  IF i = 0 THEN NotFound
        ELSE IF orders_db[i].price = None THEN InvalidState
        ELSE IF ToDecimal(orders_db[i].price) = None THEN "InvalidOperation"
        ELSE InvoiceInitError(ToDecimal(orders_db[i].price)[1], STATUS_DRAFT)

\* a mutant of InvoicesAfterCreate: the invoice is created as Sent
InvoicesAfterCreateSent(oid, due_date, notes) ==
    LET i == OrderIndex(orders_db, oid)
    IN  IF CreateInvoiceError(oid) # "ok" THEN invoices_db
        ELSE Append(invoices_db,
                [invoice_id |-> uuids.invoice + 1,
                 order_id |-> oid,
                 due_date |-> due_date,
                 total_amount |-> ToDecimal(orders_db[i].price)[1],
                 status |-> STATUS_SENT,
                 notes |-> notes])

\* the invoice store create_invoice_for_order leaves
InvoicesAfterCreate(oid, due_date, notes) ==
    LET i == OrderIndex(orders_db, oid)
    IN  IF CreateInvoiceError(oid) # "ok" THEN invoices_db
        ELSE Append(invoices_db,
                [invoice_id |-> uuids.invoice + 1,
                 order_id |-> oid,
                 due_date |-> due_date,
                 total_amount |-> ToDecimal(orders_db[i].price)[1],
                 status |-> STATUS_DRAFT,
                 notes |-> notes])

\* create_invoice_for_order(order_id, due_date, notes): due_date is a date
create_invoice_for_order(oid, due_date, notes) ==
    LET err == CreateInvoiceError(oid)
    IN  /\ err = "ok" => uuids.invoice < MaxInvoices
        /\ invoices_db' = InvoicesAfterCreate(oid, due_date, notes)
        /\ uuids' = IF err = "ok" THEN [uuids EXCEPT !.invoice = @ + 1] ELSE uuids
        /\ UNCHANGED <<orders_db, payments_db>>
        /\ Returns("create_invoice", <<oid, due_date, notes>>, err,
                   IF err = "ok" THEN uuids.invoice + 1 ELSE 0)

\* the invoice_id of the invoice get_invoice_by_id finds, 0 when it finds none
Found(iid) ==
    LET i == InvoiceIndex(invoices_db, iid)
    IN  IF i = 0 THEN 0 ELSE invoices_db[i].invoice_id

\* a mutant of Lookup: uuid.UUID's ValueError is not caught
LookupRaises(db_ids, x) ==
    IF ParseUUID(x) = None THEN "ValueError"
    ELSE IF \E k \in 1..Len(db_ids) : Some(db_ids[k]) = ParseUUID(x) THEN "found"
    ELSE "None"

\* How get_invoice_by_id and get_payment_by_id end on the ids of their
\* store: the ValueError of uuid.UUID is caught and None returned, else the
\* first record with the id is returned ("found"), else None.
Lookup(db_ids, x) ==
    IF ParseUUID(x) = None THEN "None"
    ELSE IF \E k \in 1..Len(db_ids) : Some(db_ids[k]) = ParseUUID(x) THEN "found"
    ELSE "None"

InvoiceIds == [k \in 1..Len(invoices_db) |-> invoices_db[k].invoice_id]
PaymentIds == [k \in 1..Len(payments_db) |-> payments_db[k].payment_id]

\* get_invoice_by_id(invoice_id), called by hand
get_invoice_by_id(iid) ==
    /\ UNCHANGED <<orders_db, invoices_db, payments_db, uuids>>
    /\ Returns("get_invoice", <<iid>>, Lookup(InvoiceIds, iid), Found(iid))

\* get_payment_by_id(payment_id), called by hand
get_payment_by_id(pid) ==
    /\ UNCHANGED <<orders_db, invoices_db, payments_db, uuids>>
    /\ Returns("get_payment", <<pid>>, Lookup(PaymentIds, pid), 0)

\* a mutant of UpdateStatusOutcome: the test of new_status is lost
UpdateStatusOutcomeNoStatusTest(iid, new_status) ==
    IF InvoiceIndex(invoices_db, iid) = 0 THEN "None" ELSE "ok"

\* a mutant of UpdateStatusOutcome: a Cancelled invoice refuses a new status
UpdateStatusOutcomeCancelledFinal(iid, new_status) ==
    LET i == InvoiceIndex(invoices_db, iid)
    IN  IF i = 0 THEN "None"
        ELSE IF new_status \notin VALID_STATUSES THEN InvalidArgument
        ELSE IF invoices_db[i].status = STATUS_CANCELLED THEN InvalidState
        ELSE "ok"

\* a mutant of UpdateStatusOutcome: a missing invoice is an error
UpdateStatusOutcomeRaisesNotFound(iid, new_status) ==
    IF InvoiceIndex(invoices_db, iid) = 0 THEN NotFound
    ELSE IF new_status \notin VALID_STATUSES THEN InvalidArgument
    ELSE "ok"

\* How update_invoice_status ends: "None" is the return for an invoice that
\* is not found, an error kind is a raise, "ok" is the return of the invoice.
UpdateStatusOutcome(iid, new_status) ==
    IF InvoiceIndex(invoices_db, iid) = 0 THEN "None"
    ELSE IF new_status \notin VALID_STATUSES THEN InvalidArgument
    ELSE "ok"

\* the invoice store update_invoice_status leaves
InvoicesAfterUpdateStatus(iid, new_status) ==
    IF UpdateStatusOutcome(iid, new_status) = "ok"
    THEN [invoices_db EXCEPT ![InvoiceIndex(invoices_db, iid)].status = new_status]
    ELSE invoices_db

\* update_invoice_status(invoice_id, new_status)
update_invoice_status(iid, new_status) ==
    /\ invoices_db' = InvoicesAfterUpdateStatus(iid, new_status)
    /\ UNCHANGED <<orders_db, payments_db, uuids>>
    /\ Returns("update_invoice_status", <<iid, new_status>>,
               UpdateStatusOutcome(iid, new_status), Found(iid))

\* An argument that is no date, as the test's "not-a-date"; a date argument
\* is Some(day), and the two are told apart by their length.
NotADate == <<"not-a-date", "str">>
\* isinstance(due_date, date)
IsDate(due_date) == Len(due_date) = 1

\* How update_invoice_details ends: "None" is the return for an invoice that
\* is not found, InvalidArgument the raise for a due_date that is no date,
\* "ok" the return of the invoice.
UpdateDetailsOutcome(iid, due_date, notes) ==
    IF InvoiceIndex(invoices_db, iid) = 0 THEN "None"
    ELSE IF due_date # None /\ ~IsDate(due_date) THEN InvalidArgument
    ELSE "ok"

\* a mutant of InvoicesAfterUpdateDetails: the reconciliation runs on the
\* updated invoice
InvoicesAfterUpdateDetailsReconciled(iid, due_date, notes) ==
    LET i == InvoiceIndex(invoices_db, iid)
        d == IF due_date # None THEN due_date[1] ELSE invoices_db[i].due_date
        n == IF notes # None THEN notes ELSE invoices_db[i].notes
    IN  IF UpdateDetailsOutcome(iid, due_date, notes) = "ok"
        THEN Reconciled([invoices_db EXCEPT ![i].due_date = d, ![i].notes = n],
                        payments_db, iid)
        ELSE invoices_db

\* The invoice store update_invoice_details leaves: an argument that is
\* None leaves its field alone, and the raise comes before any assignment.
InvoicesAfterUpdateDetails(iid, due_date, notes) ==
    LET i == InvoiceIndex(invoices_db, iid)
        d == IF due_date # None THEN due_date[1] ELSE invoices_db[i].due_date
        n == IF notes # None THEN notes ELSE invoices_db[i].notes
    IN  IF UpdateDetailsOutcome(iid, due_date, notes) = "ok"
        THEN [invoices_db EXCEPT ![i].due_date = d, ![i].notes = n]
        ELSE invoices_db

\* update_invoice_details(invoice_id, due_date, notes): notes is None or
\* Some(text), and the notes of an invoice are held the same way
update_invoice_details(iid, due_date, notes) ==
    /\ invoices_db' = InvoicesAfterUpdateDetails(iid, due_date, notes)
    /\ UNCHANGED <<orders_db, payments_db, uuids>>
    /\ Returns("update_invoice_details", <<iid, due_date, notes>>,
               UpdateDetailsOutcome(iid, due_date, notes), Found(iid))

\* a mutant of DeleteInvoiceOutcome: the invoice is looked for by the string
\* of the id, as the payments are
DeleteInvoiceOutcomeByStr(iid) ==
    IF \E k \in 1..Len(invoices_db) : Id(invoices_db[k].invoice_id, "str") = Str(iid)
    THEN "True" ELSE "False"

\* what delete_invoice returns
DeleteInvoiceOutcome(iid) ==
    IF InvoiceIndex(invoices_db, iid) = 0 THEN "False" ELSE "True"

\* a mutant of PaymentsAfterDeleteInvoice: the payments of every invoice of
\* the same order are removed
PaymentsAfterDeleteInvoiceOfOrder(iid) ==
    LET i == InvoiceIndex(invoices_db, iid)
        Kept(p) ==
            \A k \in 1..Len(invoices_db) :
                (ParseUUID(p.invoice_id) = Some(invoices_db[k].invoice_id))
                => invoices_db[k].order_id # invoices_db[i].order_id
    IN  IF DeleteInvoiceOutcome(iid) = "True"
        THEN SelectSeq(payments_db, Kept) ELSE payments_db

\* the payment store delete_invoice leaves: the payments
\* get_payments_for_invoice finds for the argument are removed
PaymentsAfterDeleteInvoice(iid) ==
    LET Kept(p) == Str(p.invoice_id) # Str(iid)
    IN  IF DeleteInvoiceOutcome(iid) = "True"
        THEN SelectSeq(payments_db, Kept) ELSE payments_db

\* delete_invoice(invoice_id): the payments are removed, then the invoice
delete_invoice(iid) ==
    LET i == InvoiceIndex(invoices_db, iid)
        found == DeleteInvoiceOutcome(iid) = "True"
    IN  /\ invoices_db' = IF found THEN RemoveAt(invoices_db, i) ELSE invoices_db
        /\ payments_db' = PaymentsAfterDeleteInvoice(iid)
        /\ UNCHANGED <<orders_db, uuids>>
        /\ Returns("delete_invoice", <<iid>>, DeleteInvoiceOutcome(iid), Found(iid))

(***************************************************************************)
(* payment_manager: payments.  None of the three calls the reconciliation: *)
(* the calls are comments in the source (lines 139-140, 199-200, 215-216). *)
(***************************************************************************)
\* What add_payment_to_invoice raises, "ok" when it raises nothing: the
\* lookup of the invoice, then Payment.__init__.
AddPaymentError(iid, amount_paid, payment_method) ==
    IF InvoiceIndex(invoices_db, iid) = 0 THEN NotFound
    ELSE PaymentInitError(amount_paid, payment_method)

\* the payment store add_payment_to_invoice leaves
PaymentsAfterAdd(iid, amount_paid, payment_method, transaction_id, notes) ==
    IF AddPaymentError(iid, amount_paid, payment_method) # "ok" THEN payments_db
    ELSE Append(payments_db,
            [payment_id |-> uuids.payment + 1,
             invoice_id |-> iid,
             amount_paid |-> amount_paid,
             payment_method |-> payment_method,
             transaction_id |-> transaction_id,
             notes |-> notes])

\* add_payment_to_invoice(invoice_id, amount_paid, payment_method,
\* transaction_id, notes): amount_paid is a Decimal
add_payment_to_invoice(iid, amount_paid, payment_method, transaction_id, notes) ==
    LET err == AddPaymentError(iid, amount_paid, payment_method)
    IN  /\ err = "ok" => uuids.payment < MaxPayments
        /\ payments_db' =
              PaymentsAfterAdd(iid, amount_paid, payment_method, transaction_id, notes)
        /\ uuids' = IF err = "ok" THEN [uuids EXCEPT !.payment = @ + 1] ELSE uuids
        /\ UNCHANGED <<orders_db, invoices_db>>
        /\ Returns("add_payment",
                   <<iid, amount_paid, payment_method, transaction_id, notes>>,
                   err, Found(iid))

\* the invoice the payment get_payment_by_id finds refers to, 0 when it
\* finds no payment
Owner(pid) ==
    LET i == PaymentIndex(payments_db, pid)
    IN  IF i = 0 THEN 0 ELSE payments_db[i].invoice_id.u

\* update_payment_details(payment_id, amount_paid, payment_method,
\* transaction_id, notes): amount_paid is None or a Decimal.  The fields are
\* tested and assigned one after the other, so a raise keeps the
\* assignments made before it.
update_payment_details(pid, amount_paid, payment_method, transaction_id, notes) ==
    LET i == PaymentIndex(payments_db, pid)
        p0 == payments_db[i]
        badAmount == amount_paid # None /\ amount_paid[1] <= 0
        p1 == IF amount_paid # None /\ ~badAmount
              THEN [p0 EXCEPT !.amount_paid = amount_paid[1]] ELSE p0
        badMethod == payment_method # None /\ payment_method[1] \notin VALID_PAYMENT_METHODS
        p2 == IF payment_method # None /\ ~badMethod
              THEN [p1 EXCEPT !.payment_method = payment_method[1]] ELSE p1
        p3 == IF transaction_id # None THEN [p2 EXCEPT !.transaction_id = transaction_id] ELSE p2
        p4 == IF notes # None THEN [p3 EXCEPT !.notes = notes] ELSE p3
        args == <<pid, amount_paid, payment_method, transaction_id, notes>>
    IN  /\ UNCHANGED <<orders_db, invoices_db, uuids>>
        /\ IF i = 0 THEN
               /\ UNCHANGED payments_db
               /\ Returns("update_payment", args, "None", 0)
           ELSE IF badAmount THEN
               /\ UNCHANGED payments_db
               /\ Returns("update_payment", args, InvalidArgument, Owner(pid))
           ELSE IF badMethod THEN
               /\ payments_db' = [payments_db EXCEPT ![i] = p1]
               /\ Returns("update_payment", args, InvalidArgument, Owner(pid))
           ELSE
               /\ payments_db' = [payments_db EXCEPT ![i] = p4]
               /\ Returns("update_payment", args, "ok", Owner(pid))

\* delete_payment(payment_id)
delete_payment(pid) ==
    LET i == PaymentIndex(payments_db, pid)
    IN  /\ payments_db' = IF i # 0 THEN RemoveAt(payments_db, i) ELSE payments_db
        /\ UNCHANGED <<orders_db, invoices_db, uuids>>
        /\ Returns("delete_payment", <<pid>>, IF i = 0 THEN "False" ELSE "True", Owner(pid))

\* calculate_invoice_status_after_payment(invoice_id), called by hand
calculate_invoice_status_after_payment(iid) ==
    /\ invoices_db' = Reconciled(invoices_db, payments_db, iid)
    /\ UNCHANGED <<orders_db, payments_db, uuids>>
    /\ Returns("reconcile", <<iid>>, "None", Found(iid))

IdArgs(n, forms) == {Id(u, f) : u \in 1..n, f \in forms}
NoCall == [op |-> "none", outcome |-> "None", invoice |-> 0, was |-> "-"]

(***************************************************************************)
(* settings: settings/models.py and settings/settings_manager.py.          *)
(* A Python value is [t, v]: the name of its type and its text.  An        *)
(* AppSettings object is a function from attribute names to values: its    *)
(* six fields, and the class attributes an assignment on the object has    *)
(* shadowed (Missing while the class's own is seen).                       *)
(***************************************************************************)
Val(t, v) == [t |-> t, v |-> v]
PyNone == Val("NoneType", "None")
PyTrue == Val("bool", "True")
PyFalse == Val("bool", "False")
Missing == Val("missing", "")

THEME_LIGHT == Val("str", "light")
THEME_DARK == Val("str", "dark")
THEME_SYSTEM_DEFAULT == Val("str", "system_default")
VALID_THEMES == {THEME_LIGHT, THEME_DARK, THEME_SYSTEM_DEFAULT}
LANG_ENGLISH == Val("str", "en")
LANG_TURKISH == Val("str", "tr")
LANG_FRENCH == Val("str", "fr")
VALID_LANGUAGES == {LANG_ENGLISH, LANG_TURKISH, LANG_FRENCH}
DEFAULT_SETTINGS_ID == Val("str", "global_app_settings")

\* the attributes __init__ assigns
Fields == {"settings_id", "theme", "language", "backup_enabled",
           "backup_location", "sync_frequency_hours"}
\* two of the attributes of the class that hasattr finds on every object: a
\* method and a constant
ClassAttrs == {"to_dict", "VALID_THEMES"}

\* the defaults of the parameters of __init__, which from_dict repeats
DefaultOf(k) ==
    CASE k = "settings_id" -> DEFAULT_SETTINGS_ID
      [] k = "theme" -> THEME_SYSTEM_DEFAULT
      [] k = "language" -> LANG_ENGLISH
      [] k = "backup_enabled" -> PyFalse
      [] OTHER -> PyNone

\* AppSettings.__init__(**args): a theme or language outside its list falls
\* back to the default
AppSettings(args) ==
    [k \in Fields \cup ClassAttrs |->
        IF k \in ClassAttrs THEN Missing
        ELSE IF k = "theme" /\ args[k] \notin VALID_THEMES THEN THEME_SYSTEM_DEFAULT
        ELSE IF k = "language" /\ args[k] \notin VALID_LANGUAGES THEN LANG_ENGLISH
        ELSE args[k]]

\* AppSettings()
DefaultSettings == AppSettings([k \in Fields |-> DefaultOf(k)])

\* AppSettings.from_dict(data_dict): data_dict.get(key, default)
from_dict(data_dict) ==
    AppSettings([k \in Fields |->
        IF data_dict[k] = Missing THEN DefaultOf(k) ELSE data_dict[k]])

\* AppSettings.to_dict
to_dict(settings) == [k \in Fields |-> settings[k]]

\* json.dump refuses a set with TypeError
Serializable(v) == v.t # "set"
\* what json.load reads back of a value json.dump has written: a tuple is
\* written as an array and read as a list
JsonValue(v) == IF v.t = "tuple" THEN Val("list", v.v) ELSE v

\* The settings file: absent; not JSON (empty or cut short as well);
\* JSON that is no object (an array, a number, a string, null); or a JSON
\* object, a function from the six keys to values, Missing for a key the
\* object does not have.
NoFile == [kind |-> "absent", data |-> None]
InvalidFile == [kind |-> "invalid", data |-> None]
NonObjectFile == [kind |-> "nonobject", data |-> None]
ObjectFile(d) == [kind |-> "object", data |-> Some(d)]

\* at import: current_settings = None, and no file written yet
SettingsNotLoaded == settings_file = NoFile /\ current_settings = None

\* What save_settings raises on the object, "ok" when nothing: to_dict() of
\* an object whose to_dict is shadowed by a value that cannot be called, or
\* json.dump of a value it cannot write.
SaveError(settings) ==
    IF settings["to_dict"] # Missing THEN "TypeError"
    ELSE IF \E k \in Fields : ~Serializable(settings[k]) THEN "TypeError"
    ELSE "ok"

\* the file save_settings leaves: open(path, 'w') has emptied it before
\* to_dict() is called and json.dump writes it piece by piece
FileAfterSave(settings) ==
    IF SaveError(settings) # "ok" THEN InvalidFile
    ELSE ObjectFile([k \in Fields |-> JsonValue(to_dict(settings)[k])])

\* What load_settings raises on the file, "ok" when nothing: FileNotFoundError
\* and json.JSONDecodeError are caught; data.get of from_dict raises
\* AttributeError on JSON that is no object, and that is not caught.
LoadError(file) == IF file.kind = "nonobject" THEN "AttributeError" ELSE "ok"

\* current_settings as load_settings leaves it
SettingsAfterLoad(file, settings) ==
    IF LoadError(file) # "ok" THEN settings
    ELSE IF file.kind = "object" THEN Some(from_dict(file.data[1]))
    ELSE Some(DefaultSettings)

\* the file as load_settings leaves it: written by save_settings when the
\* defaults have been taken
FileAfterLoad(file) ==
    IF LoadError(file) = "ok" /\ file.kind # "object"
    THEN FileAfterSave(DefaultSettings) ELSE file

\* the call returns or raises: it is recorded
SettingsReturns(op, outcome) ==
    /\ last' = [op |-> op, outcome |-> outcome, invoice |-> 0, was |-> "-"]
    /\ UNCHANGED <<orders_db, invoices_db, payments_db, uuids, scen, appointments_db>>

\* load_settings()
load_settings ==
    /\ current_settings' = SettingsAfterLoad(settings_file, current_settings)
    /\ settings_file' = FileAfterLoad(settings_file)
    /\ SettingsReturns("load_settings", LoadError(settings_file))

\* get_settings() as update_setting calls it: what it raises, and the object
\* and the file it leaves
GetError == IF current_settings = None THEN LoadError(settings_file) ELSE "ok"
SettingsAfterGet ==
    IF current_settings = None
    THEN SettingsAfterLoad(settings_file, current_settings) ELSE current_settings
FileAfterGet ==
    IF current_settings = None THEN FileAfterLoad(settings_file) ELSE settings_file

\* the "Specific validations" of update_setting refuse the value
Refused(key, value) ==
    \/ key = "theme" /\ value \notin VALID_THEMES
    \/ key = "language" /\ value \notin VALID_LANGUAGES
    \/ key = "backup_enabled" /\ value.t # "bool"
    \/ key = "sync_frequency_hours" /\ value # PyNone /\ value.t \notin {"int", "bool"}

\* hasattr(settings, key): the fields, and every attribute of the class
HasAttr(key) == key \in Fields \cup ClassAttrs

\* the object after setattr(settings, key, value)
SetAttr(settings, key, value) == [settings EXCEPT ![key] = value]

\* How update_setting ends: an error raised by get_settings or by
\* save_settings, "None" for a key or value it refuses, "ok" when it returns
\* the settings.
UpdateSettingOutcome(key, value) ==
    IF GetError # "ok" THEN GetError
    ELSE IF ~HasAttr(key) THEN "None"
    ELSE IF Refused(key, value) THEN "None"
    ELSE SaveError(SetAttr(SettingsAfterGet[1], key, value))

\* current_settings as update_setting leaves it
SettingsAfterUpdate(key, value) ==
    IF GetError # "ok" \/ ~HasAttr(key) \/ Refused(key, value) THEN SettingsAfterGet
    ELSE Some(SetAttr(SettingsAfterGet[1], key, value))

\* the file as update_setting leaves it
FileAfterUpdate(key, value) ==
    IF GetError # "ok" \/ ~HasAttr(key) \/ Refused(key, value) THEN FileAfterGet
    ELSE FileAfterSave(SetAttr(SettingsAfterGet[1], key, value))

\* update_setting(key, value)
update_setting(key, value) ==
    /\ current_settings' = SettingsAfterUpdate(key, value)
    /\ settings_file' = FileAfterUpdate(key, value)
    /\ SettingsReturns("update_setting", UpdateSettingOutcome(key, value))

\* The test with which a convenience setter refuses its argument before it
\* calls update_setting; isinstance(x, int) holds of a bool.
SetterRefused(key, value) ==
    \/ key = "theme" /\ value \notin VALID_THEMES
    \/ key = "language" /\ value \notin VALID_LANGUAGES
    \/ key = "backup_enabled" /\ value.t # "bool"
    \/ key = "backup_location" /\ value # PyNone /\ value.t # "str"
    \/ key = "sync_frequency_hours" /\ value # PyNone /\ value.t \notin {"int", "bool"}

\* How a convenience setter ends: "warned" when it prints its warning and
\* returns get_settings(), else as update_setting does.
SetterOutcome(key, value) ==
    IF ~SetterRefused(key, value) THEN UpdateSettingOutcome(key, value)
    ELSE IF GetError # "ok" THEN GetError
    ELSE "warned"

\* current_settings and the file as a convenience setter leaves them
SettingsAfterSetter(key, value) ==
    IF SetterRefused(key, value) THEN SettingsAfterGet ELSE SettingsAfterUpdate(key, value)
FileAfterSetter(key, value) ==
    IF SetterRefused(key, value) THEN FileAfterGet ELSE FileAfterUpdate(key, value)

\* the body the five setters share, for the field each one sets
Setter(op, key, value) ==
    /\ current_settings' = SettingsAfterSetter(key, value)
    /\ settings_file' = FileAfterSetter(key, value)
    /\ SettingsReturns(op, SetterOutcome(key, value))

set_theme(theme_name) == Setter("set_theme", "theme", theme_name)
set_language(lang_code) == Setter("set_language", "language", lang_code)
set_backup_enabled(enabled) == Setter("set_backup_enabled", "backup_enabled", enabled)
set_backup_location(location) == Setter("set_backup_location", "backup_location", location)
set_sync_frequency(hours) == Setter("set_sync_frequency", "sync_frequency_hours", hours)

(***************************************************************************)
(* bookings: bookings/models.py and bookings/booking_manager.py.  Times    *)
(* are hours; a datetime argument is Some(hour), and NotADate is an        *)
(* argument that is no datetime.  Of an appointment the model keeps the    *)
(* id, the two times, the title and the type; client_id, order_id,         *)
(* description and location are assigned as given and never tested.        *)
(***************************************************************************)
TYPE_CONSULTATION == "Consultation"
TYPE_MEASUREMENT == "Measurement"
TYPE_FITTING == "Fitting"
TYPE_PICKUP == "Pickup"
TYPE_GENERAL_TASK == "General Task"
VALID_APPOINTMENT_TYPES ==
    {TYPE_CONSULTATION, TYPE_MEASUREMENT, TYPE_FITTING, TYPE_PICKUP, TYPE_GENERAL_TASK}

\* isinstance(x, datetime)
IsDateTime(x) == Len(x) = 1

\* title.strip(), for the titles of the model
Strip(title) == IF title \in {"", " ", "  "} THEN "" ELSE title

\* Appointment.__init__: "ok" or the error raised
AppointmentInitError(start_time, end_time, appointment_type) ==
    IF ~IsDateTime(start_time) \/ ~IsDateTime(end_time) THEN InvalidArgument
    ELSE IF end_time[1] <= start_time[1] THEN InvalidArgument
    ELSE IF appointment_type \notin VALID_APPOINTMENT_TYPES THEN InvalidArgument
    ELSE "ok"

\* add_appointment(start_time, end_time, title, appointment_type=...); no
\* appointment is removed here, so the length of the list numbers the uuid4()
\* values
add_appointment(start_time, end_time, title, appointment_type) ==
    LET err == AppointmentInitError(start_time, end_time, appointment_type)
    IN  /\ err = "ok" => Len(appointments_db) < MaxAppointments
        /\ appointments_db' =
              IF err # "ok" THEN appointments_db
              ELSE Append(appointments_db,
                      [appointment_id |-> Len(appointments_db) + 1,
                       start_time |-> start_time[1],
                       end_time |-> end_time[1],
                       title |-> title,
                       appointment_type |-> appointment_type])
        /\ last' = [op |-> "add_appointment", outcome |-> err, invoice |-> 0, was |-> "-"]
        /\ UNCHANGED <<orders_db, invoices_db, payments_db, uuids, scen,
                       settings_file, current_settings>>

\* get_appointment_by_id
AppointmentIndex(db, aid) ==
    LET Hit(a) == ParseUUID(aid) = Some(a.appointment_id)
    IN  FirstIndex(db, Hit)

\* How update_appointment ends, and at which of its tests: "None" for an
\* appointment that is not found, "times" for a raise of the tests of
\* start_time and end_time, "title" and "type" for a raise of the later
\* tests, "ok" for the return of the appointment.
UpdateAppointmentEnd(aid, start_time, end_time, title, appointment_type) ==
    LET i == AppointmentIndex(appointments_db, aid)
        current_start == IF start_time # None THEN start_time[1]
                         ELSE appointments_db[i].start_time
        current_end == IF end_time # None THEN end_time[1]
                       ELSE appointments_db[i].end_time
    IN  IF i = 0 THEN "None"
        ELSE IF start_time # None /\ ~IsDateTime(start_time) THEN "times"
        ELSE IF end_time # None /\ ~IsDateTime(end_time) THEN "times"
        ELSE IF current_end <= current_start THEN "times"
        ELSE IF title # None /\ Strip(title[1]) = "" THEN "title"
        ELSE IF appointment_type # None
                /\ appointment_type[1] \notin VALID_APPOINTMENT_TYPES THEN "type"
        ELSE "ok"

\* a mutant of AppointmentsAfterUpdate: the two times are assigned where
\* they are first read, before they are compared
AppointmentsAfterUpdateAssignFirst(aid, start_time, end_time, title, appointment_type) ==
    LET i == AppointmentIndex(appointments_db, aid)
        end == UpdateAppointmentEnd(aid, start_time, end_time, title, appointment_type)
        a0 == appointments_db[i]
        a1 == IF start_time # None /\ IsDateTime(start_time)
              THEN [a0 EXCEPT !.start_time = start_time[1]] ELSE a0
        a2 == IF end_time # None /\ IsDateTime(end_time)
                 /\ (start_time # None => IsDateTime(start_time))
              THEN [a1 EXCEPT !.end_time = end_time[1]] ELSE a1
        a3 == IF title # None /\ end # "title" THEN [a2 EXCEPT !.title = title[1]] ELSE a2
        a4 == IF appointment_type # None /\ end # "type"
              THEN [a3 EXCEPT !.appointment_type = appointment_type[1]] ELSE a3
    IN  IF end = "None" THEN appointments_db
        ELSE IF end = "times" THEN [appointments_db EXCEPT ![i] = a2]
        ELSE IF end = "title" THEN [appointments_db EXCEPT ![i] = a2]
        ELSE IF end = "type" THEN [appointments_db EXCEPT ![i] = a3]
        ELSE [appointments_db EXCEPT ![i] = a4]

\* The appointment store update_appointment leaves: the times are assigned
\* after their tests have passed, the title and the type each after its own
\* test, so a raise keeps the assignments made before it.
AppointmentsAfterUpdate(aid, start_time, end_time, title, appointment_type) ==
    LET i == AppointmentIndex(appointments_db, aid)
        end == UpdateAppointmentEnd(aid, start_time, end_time, title, appointment_type)
        a0 == appointments_db[i]
        a1 == IF start_time # None THEN [a0 EXCEPT !.start_time = start_time[1]] ELSE a0
        a2 == IF end_time # None THEN [a1 EXCEPT !.end_time = end_time[1]] ELSE a1
        a3 == IF title # None THEN [a2 EXCEPT !.title = title[1]] ELSE a2
        a4 == IF appointment_type # None
              THEN [a3 EXCEPT !.appointment_type = appointment_type[1]] ELSE a3
    IN  IF end \in {"None", "times"} THEN appointments_db
        ELSE IF end = "title" THEN [appointments_db EXCEPT ![i] = a2]
        ELSE IF end = "type" THEN [appointments_db EXCEPT ![i] = a3]
        ELSE [appointments_db EXCEPT ![i] = a4]

\* update_appointment(appointment_id, start_time, end_time, title,
\* appointment_type): every raise is a ValueError
update_appointment(aid, start_time, end_time, title, appointment_type) ==
    LET end == UpdateAppointmentEnd(aid, start_time, end_time, title, appointment_type)
    IN  /\ appointments_db' =
              AppointmentsAfterUpdate(aid, start_time, end_time, title, appointment_type)
        /\ last' = [op |-> "update_appointment",
                    outcome |-> IF end \in {"None", "ok"} THEN end ELSE InvalidArgument,
                    invoice |-> 0, was |-> "-"]
        /\ UNCHANGED <<orders_db, invoices_db, payments_db, uuids, scen,
                       settings_file, current_settings>>

(***************************************************************************)
(* Spec: the order store and the invoice functions, from empty stores,     *)
(* with the payments the invoices need.                                    *)
(***************************************************************************)
Init ==
    /\ orders_db = <<>>
    /\ invoices_db = <<>>
    /\ payments_db = <<>>
    /\ uuids = [order |-> 0, invoice |-> 0, payment |-> 0]
    /\ last = NoCall
    /\ scen = ScenOff
    /\ appointments_db = <<>>
    /\ SettingsNotLoaded

Prices == {None, Some(0), Some(100)}
OrderIdArgs == IdArgs(MaxOrders, {"uuid", "str"})
InvoiceIdArgs == IdArgs(MaxInvoices, {"uuid", "upper", "bad"})
DueDates == {Yesterday, Tomorrow}

Next ==
    \/ \E price \in Prices : add_order(price)
    \/ \E oid \in OrderIdArgs : update_order_details(oid, Some(0))
    \/ \E oid \in OrderIdArgs : delete_order(oid)
    \/ \E oid \in OrderIdArgs, d \in DueDates : create_invoice_for_order(oid, d, None)
    \/ \E iid \in InvoiceIdArgs, st \in {STATUS_SENT, "Archived"} :
            update_invoice_status(iid, st)
    \/ \E iid \in InvoiceIdArgs : update_invoice_details(iid, Some(Yesterday), None)
    \/ \E iid \in InvoiceIdArgs : delete_invoice(iid)
    \/ \E iid \in InvoiceIdArgs : add_payment_to_invoice(iid, 40, METHOD_CASH, None, None)

Spec == Init /\ [][Next]_vars

(***************************************************************************)
(* SpecPay: the payment functions and the reconciliation on one invoice    *)
(* that create_invoice_for_order, update_invoice_status and                *)
(* update_invoice_details have left with any status, amount and due date.  *)
(***************************************************************************)
InvoiceOne(total, status, due) ==
    [invoice_id |-> 1, order_id |-> Id(1, "uuid"), due_date |-> due,
     total_amount |-> total, status |-> status, notes |-> None]

InitPay ==
    /\ \E total \in {0, 100}, status \in VALID_STATUSES, due \in {Yesterday, Today, Tomorrow} :
          /\ orders_db = <<[order_id |-> 1, price |-> Some(total)]>>
          /\ invoices_db = <<InvoiceOne(total, status, due)>>
    /\ payments_db = <<>>
    /\ uuids = [order |-> 1, invoice |-> 1, payment |-> 0]
    /\ last = NoCall
    /\ scen = ScenOff
    /\ appointments_db = <<>>
    /\ SettingsNotLoaded

PaymentIdArgs == IdArgs(MaxPayments, {"uuid", "bad"})
Amounts == {-10, 0, 40, 60}
MethodArgs == {METHOD_CASH, "Cheque"}
NewAmounts == {Some(0), Some(10)}

AddsPayment ==
    \E iid \in IdArgs(MaxInvoices, {"uuid", "bad"}), a \in Amounts, m \in MethodArgs :
        add_payment_to_invoice(iid, a, m, None, None)
NewMethods == {None, Some("Cheque")}

UpdatesPayment ==
    \E pid \in PaymentIdArgs, a \in NewAmounts, m \in NewMethods :
        update_payment_details(pid, a, m, None, None)
DeletesPayment ==
    \E pid \in PaymentIdArgs : delete_payment(pid)
Reconciles ==
    \E iid \in InvoiceIdArgs : calculate_invoice_status_after_payment(iid)

NextPay == AddsPayment \/ UpdatesPayment \/ DeletesPayment \/ Reconciles

SpecPay == InitPay /\ [][NextPay]_vars

\* SpecMutations: SpecPay without the reconciliation called by hand.
NextMutations == AddsPayment \/ UpdatesPayment \/ DeletesPayment

SpecMutations == InitPay /\ [][NextMutations]_vars

(***************************************************************************)
(* SpecScenario: the calls of test_invoice_status_after_payment on the     *)
(* invoice of 100 it creates, due in the future.                           *)
(***************************************************************************)
InitScenario ==
    /\ orders_db = <<[order_id |-> 1, price |-> Some(100)]>>
    /\ invoices_db = <<InvoiceOne(100, STATUS_DRAFT, Tomorrow)>>
    /\ payments_db = <<>>
    /\ uuids = [order |-> 1, invoice |-> 1, payment |-> 0]
    /\ last = NoCall
    /\ scen = ScenOff
    /\ appointments_db = <<>>
    /\ SettingsNotLoaded

NextScenario ==
    \/ \E st \in {STATUS_SENT, STATUS_CANCELLED} : update_invoice_status(Id(1, "uuid"), st)
    \/ update_invoice_details(Id(1, "uuid"), Some(Yesterday), None)
    \/ \E a \in {1, 40, 60} : add_payment_to_invoice(Id(1, "uuid"), a, METHOD_CASH, None, None)
    \/ \E pid \in IdArgs(MaxPayments, {"uuid"}) :
            update_payment_details(pid, Some(10), None, None, None)
    \/ \E pid \in IdArgs(MaxPayments, {"uuid"}) : delete_payment(pid)

SpecScenario == InitScenario /\ [][NextScenario]_vars

(***************************************************************************)
(* SpecInvoice: the life of the invoices of one order, whose price is any  *)
(* number add_order accepts; the first invoice takes every status          *)
(* argument, a new due date and payments.                                  *)
(***************************************************************************)
InitInvoice ==
    /\ \E price \in {Some(-50), Some(0), Some(100)} :
          orders_db = <<[order_id |-> 1, price |-> price]>>
    /\ invoices_db = <<>>
    /\ payments_db = <<>>
    /\ uuids = [order |-> 1, invoice |-> 0, payment |-> 0]
    /\ last = NoCall
    /\ scen = ScenOff
    /\ appointments_db = <<>>
    /\ SettingsNotLoaded

StatusArgs == VALID_STATUSES \cup {"Archived"}

NextInvoice ==
    \/ create_invoice_for_order(Id(1, "uuid"), Tomorrow, None)
    \/ \E iid \in IdArgs(1, {"uuid", "upper", "bad"}), st \in StatusArgs :
            update_invoice_status(iid, st)
    \/ update_invoice_details(Id(1, "uuid"), Some(Yesterday), None)
    \/ \E iid \in InvoiceIdArgs : delete_invoice(iid)
    \/ add_payment_to_invoice(Id(1, "uuid"), 40, METHOD_CASH, None, None)
    \/ \E pid \in IdArgs(MaxPayments, {"uuid"}) :
            update_payment_details(pid, Some(100), None, None, None)
    \/ \E pid \in IdArgs(MaxPayments, {"uuid"}) : delete_payment(pid)
    \/ \E iid \in IdArgs(MaxInvoices, {"uuid"}) : calculate_invoice_status_after_payment(iid)
    \/ \E iid \in InvoiceIdArgs : get_invoice_by_id(iid)
    \/ \E pid \in PaymentIdArgs : get_payment_by_id(pid)

SpecInvoice == InitInvoice /\ [][NextInvoice]_vars

(***************************************************************************)
(* SpecSettings: load_settings, update_setting and the setters on a        *)
(* settings file that the program finds absent, unreadable, or holding     *)
(* JSON of any shape.                                                      *)
(***************************************************************************)
\* JSON objects the file may hold: all six keys with their defaults; no key;
\* a theme outside the list and backups enabled
FileObjects ==
    { [k \in Fields |-> DefaultOf(k)],
      [k \in Fields |-> Missing],
      [k \in Fields |-> IF k = "theme" THEN Val("str", "purple")
                        ELSE IF k = "backup_enabled" THEN PyTrue ELSE Missing] }

InitSettings ==
    /\ settings_file \in {NoFile, InvalidFile, NonObjectFile}
                            \cup {ObjectFile(d) : d \in FileObjects}
    /\ current_settings = None
    /\ orders_db = <<>>
    /\ invoices_db = <<>>
    /\ payments_db = <<>>
    /\ uuids = [order |-> 0, invoice |-> 0, payment |-> 0]
    /\ last = NoCall
    /\ scen = ScenOff
    /\ appointments_db = <<>>

KeyArgs == {"theme", "backup_enabled", "backup_location", "font_size",
            "to_dict", "VALID_THEMES"}
ValueArgs == {THEME_DARK, Val("str", "purple"), PyTrue, Val("set", "{1}")}

\* the arguments of the setters: those of update_setting, a language, a
\* number of hours and None
SetterArgs == ValueArgs \cup {LANG_TURKISH, Val("int", "24"), PyNone}

NextSettings ==
    \/ load_settings
    \/ \E key \in KeyArgs, value \in ValueArgs : update_setting(key, value)
    \/ \E value \in SetterArgs : set_theme(value)
    \/ \E value \in SetterArgs : set_language(value)
    \/ \E value \in SetterArgs : set_backup_enabled(value)
    \/ \E value \in SetterArgs : set_backup_location(value)
    \/ \E value \in SetterArgs : set_sync_frequency(value)

SpecSettings == InitSettings /\ [][NextSettings]_vars

(***************************************************************************)
(* SpecDetails: update_invoice_details with every kind of argument on the  *)
(* invoice create_invoice_for_order has made with or without notes, which  *)
(* takes any status and gains and loses payments.                          *)
(***************************************************************************)
NotesArgs == {None, Some("Updated notes")}
DueDateArgs == {None, Some(Yesterday), NotADate}

InitDetails ==
    /\ orders_db = <<[order_id |-> 1, price |-> Some(100)]>>
    /\ \E notes \in {None, Some("First notes")} :
          invoices_db = <<[InvoiceOne(100, STATUS_DRAFT, Tomorrow) EXCEPT !.notes = notes]>>
    /\ payments_db = <<>>
    /\ uuids = [order |-> 1, invoice |-> 1, payment |-> 0]
    /\ last = NoCall
    /\ scen = ScenOff
    /\ appointments_db = <<>>
    /\ SettingsNotLoaded

NextDetails ==
    \/ \E st \in VALID_STATUSES : update_invoice_status(Id(1, "uuid"), st)
    \/ \E iid \in InvoiceIdArgs, d \in DueDateArgs, n \in NotesArgs :
            update_invoice_details(iid, d, n)
    \/ add_payment_to_invoice(Id(1, "uuid"), 40, METHOD_CASH, None, None)
    \/ \E pid \in IdArgs(MaxPayments, {"uuid"}) : delete_payment(pid)

SpecDetails == InitDetails /\ [][NextDetails]_vars

(***************************************************************************)
(* SpecBookings: add_appointment and update_appointment from an empty      *)
(* store, with times in either order and of the wrong type, blank titles   *)
(* and types outside the list.                                             *)
(***************************************************************************)
InitBookings ==
    /\ appointments_db = <<>>
    /\ orders_db = <<>>
    /\ invoices_db = <<>>
    /\ payments_db = <<>>
    /\ uuids = [order |-> 0, invoice |-> 0, payment |-> 0]
    /\ last = NoCall
    /\ scen = ScenOff
    /\ SettingsNotLoaded

Hours == {9, 10, 11}
TimeArgs == {Some(h) : h \in Hours} \cup {NotADate}
NewTimeArgs == {None} \cup TimeArgs
TitleArgs == {None, Some("Fitting of the suit"), Some("  ")}
TypeArgs == {TYPE_FITTING, "Party"}
NewTypeArgs == {None, Some(TYPE_PICKUP), Some("Party")}
AppointmentIdArgs == IdArgs(MaxAppointments, {"uuid", "bad"})

NextBookings ==
    \/ \E s \in TimeArgs, e \in TimeArgs, ty \in TypeArgs :
            add_appointment(s, e, "First visit", ty)
    \/ \E aid \in AppointmentIdArgs, s \in NewTimeArgs, e \in NewTimeArgs,
          ti \in TitleArgs, ty \in NewTypeArgs :
            update_appointment(aid, s, e, ti, ty)

SpecBookings == InitBookings /\ [][NextBookings]_vars

(***************************************************************************)
(* SpecTwo: two invoices of one order, one of them Partial and past its    *)
(* due date, and the calls that add, change and delete their payments and  *)
(* delete the invoices, with ids in either spelling.                       *)
(***************************************************************************)
InitTwo ==
    /\ orders_db = <<[order_id |-> 1, price |-> Some(100)]>>
    /\ invoices_db = <<InvoiceOne(100, STATUS_PARTIAL, Yesterday),
                       [InvoiceOne(100, STATUS_SENT, Tomorrow) EXCEPT !.invoice_id = 2]>>
    /\ payments_db = <<>>
    /\ uuids = [order |-> 1, invoice |-> 2, payment |-> 0]
    /\ last = NoCall
    /\ scen = ScenOff
    /\ appointments_db = <<>>
    /\ SettingsNotLoaded

TwoIdArgs == IdArgs(MaxInvoices, {"uuid", "upper"})

NextTwo ==
    \/ \E iid \in TwoIdArgs, a \in {0, 40} :
            add_payment_to_invoice(iid, a, METHOD_CASH, None, None)
    \/ \E pid \in IdArgs(MaxPayments, {"uuid"}), m \in NewMethods :
            update_payment_details(pid, Some(10), m, None, None)
    \/ \E pid \in IdArgs(MaxPayments, {"uuid"}) : delete_payment(pid)
    \/ \E iid \in TwoIdArgs : delete_invoice(iid)

SpecTwo == InitTwo /\ [][NextTwo]_vars

(***************************************************************************)
(* SpecTotals: an order of 100 whose price is changed and which is         *)
(* deleted while invoices made for it live through every invoice and       *)
(* payment function.                                                       *)
(***************************************************************************)
InitTotals ==
    /\ orders_db = <<[order_id |-> 1, price |-> Some(100)]>>
    /\ invoices_db = <<>>
    /\ payments_db = <<>>
    /\ uuids = [order |-> 1, invoice |-> 0, payment |-> 0]
    /\ last = NoCall
    /\ scen = ScenOff
    /\ appointments_db = <<>>
    /\ SettingsNotLoaded

NextTotals ==
    \/ update_order_details(Id(1, "uuid"), Some(0))
    \/ delete_order(Id(1, "uuid"))
    \/ create_invoice_for_order(Id(1, "uuid"), Tomorrow, None)
    \/ update_invoice_status(Id(1, "uuid"), STATUS_PARTIAL)
    \/ update_invoice_details(Id(1, "uuid"), Some(Yesterday), Some("Updated notes"))
    \/ \E iid \in IdArgs(MaxInvoices, {"uuid"}) : delete_invoice(iid)
    \/ add_payment_to_invoice(Id(1, "uuid"), 40, METHOD_CASH, None, None)
    \/ \E pid \in IdArgs(MaxPayments, {"uuid"}) :
            update_payment_details(pid, Some(100), None, None, None)
    \/ \E pid \in IdArgs(MaxPayments, {"uuid"}) : delete_payment(pid)
    \/ \E iid \in IdArgs(MaxInvoices, {"uuid"}) : calculate_invoice_status_after_payment(iid)

SpecTotals == InitTotals /\ [][NextTotals]_vars

(***************************************************************************)
(* The claims.                                                             *)
(***************************************************************************)
\* the invoice the last call found, and what its payments sum to
LastInvoice ==
    LET Hit(inv) == inv.invoice_id = last.invoice
    IN  invoices_db[FirstIndex(invoices_db, Hit)]
LastPaid == SumPaid(PaymentsOf(payments_db, last.invoice))
Mutations == {"add_payment", "update_payment", "delete_payment"}
Mutated == last.op \in Mutations /\ last.outcome \in {"ok", "True"}

\* C1: after any sequence of add_payment, update_payment and delete_payment
\* on an invoice with a positive total amount that is not Cancelled, the
\* status is Paid exactly when the payments sum to the total amount or more,
\* and Partial exactly when they sum to more than zero and less than it.
\* Stated of the invoice a payment of which the last call has changed.
C1_StatusFollowsPayments ==
    (Mutated /\ LastInvoice.total_amount > 0 /\ LastInvoice.status # STATUS_CANCELLED)
    => /\ LastInvoice.status = STATUS_PAID <=> LastPaid >= LastInvoice.total_amount
       /\ LastInvoice.status = STATUS_PARTIAL
            <=> (LastPaid > 0 /\ LastPaid < LastInvoice.total_amount)

\* C2: right after a successful add_payment on an invoice that is not
\* Cancelled the status is Paid if the payments sum to the total amount or
\* more, and Partial if they sum to less.
C2_AddPaymentReconciles ==
    (last.op = "add_payment" /\ last.outcome = "ok" /\ last.was # STATUS_CANCELLED)
    => LastInvoice.status =
          IF LastPaid >= LastInvoice.total_amount THEN STATUS_PAID ELSE STATUS_PARTIAL

\* C3: right after a successful update_payment with a new amount the status
\* of the owning invoice, unless Cancelled, is the one the new sum gives.
C3_UpdatePaymentReconciles ==
    (last.op = "update_payment" /\ last.outcome = "ok" /\ last.was # STATUS_CANCELLED)
    => LastInvoice.status =
          IF LastPaid >= LastInvoice.total_amount THEN STATUS_PAID ELSE STATUS_PARTIAL

\* C4: right after a successful delete_payment the owning invoice, unless
\* Cancelled, is Paid or Partial by the remaining sum, and with no payment
\* left an invoice that was Paid or Partial is Overdue if its due date is
\* before today and Sent otherwise.
C4_DeletePaymentReconciles ==
    (last.op = "delete_payment" /\ last.outcome = "True" /\ last.was # STATUS_CANCELLED)
    => IF LastPaid >= LastInvoice.total_amount THEN LastInvoice.status = STATUS_PAID
       ELSE IF LastPaid > 0 THEN LastInvoice.status = STATUS_PARTIAL
       ELSE last.was \in {STATUS_PAID, STATUS_PARTIAL}
            => LastInvoice.status =
                  IF LastInvoice.due_date < Today THEN STATUS_OVERDUE ELSE STATUS_SENT

\* C5: no add_payment, update_payment, delete_payment or reconciliation
\* changes the status of an invoice that is Cancelled.
C5_CancelledStays ==
    [][\A k \in 1..Len(invoices_db) :
          (invoices_db[k].status = STATUS_CANCELLED
           /\ last'.op \in Mutations \cup {"reconcile"})
          => StatusOf(invoices_db', invoices_db[k].invoice_id) = STATUS_CANCELLED]_vars

\* C5's case: a Cancelled invoice whose payments cover its amount has just
\* been reconciled, and is Cancelled.
C5_Witness ==
    /\ last.op = "reconcile" /\ last.invoice # 0 /\ last.was = STATUS_CANCELLED
    /\ LastInvoice.total_amount > 0
    /\ SumPaid(PaymentsForInvoice(payments_db, Id(last.invoice, "uuid")))
          >= LastInvoice.total_amount
    /\ LastInvoice.status = STATUS_CANCELLED

\* C7: in every state, and for every argument, reconciling twice leaves the
\* invoices as reconciling once does.
C7_ReconcileIdempotent ==
    \A iid \in InvoiceIdArgs :
        Reconciled(Reconciled(invoices_db, payments_db, iid), payments_db, iid)
            = Reconciled(invoices_db, payments_db, iid)

\* C7's case: a reconciliation has just changed a status (a Paid or Partial
\* invoice without payments has become Sent).
C7_Witness ==
    /\ last.op = "reconcile" /\ last.invoice # 0
    /\ last.was \in {STATUS_PAID, STATUS_PARTIAL}
    /\ LastInvoice.status = STATUS_SENT

\* C8: in the scenario the statuses after the steps are Partial (payment of
\* 40), Paid (payment of 60), Partial (second payment lowered to 10), Sent
\* (both deleted) and Overdue (due date moved to yesterday, a payment of 1
\* added and deleted).
C8_ScenarioStatuses ==
    LET status == StatusOf(invoices_db, scen.inv)
    IN  /\ scen.step = 2 => status = STATUS_PARTIAL
        /\ scen.step = 3 => status = STATUS_PAID
        /\ scen.step = 4 => status = STATUS_PARTIAL
        /\ scen.step = 6 => status = STATUS_SENT
        /\ scen.step = 9 => status = STATUS_OVERDUE

\* C6: after delete_invoice has succeeded the invoice is not in the invoice
\* store and no payment in the payment store refers to its id.
C6_DeleteInvoiceCascades ==
    (last.op = "delete_invoice" /\ last.outcome = "True")
    => /\ StatusOf(invoices_db, last.invoice) = "-"
       /\ PaymentsOf(payments_db, last.invoice) = <<>>

\* what add_payment_to_invoice rejects
BadPayment(a, m) == a <= 0 \/ m \notin VALID_PAYMENT_METHODS

\* an add_payment that has failed has changed neither store
FailedAddChangesNothing ==
    (last'.op = "add_payment" /\ last'.outcome # "ok")
    => payments_db' = payments_db /\ invoices_db' = invoices_db

\* C9 as stated: add_payment with an amount of zero or less, or a method
\* outside the enum, fails with InvalidArgument, and a failed add_payment
\* leaves the payment store and every invoice as they were.
C9_BadPaymentIsInvalidArgument ==
    /\ [](\A iid \in InvoiceIdArgs, a \in Amounts, m \in MethodArgs :
            BadPayment(a, m) => AddPaymentError(iid, a, m) = InvalidArgument)
    /\ [][FailedAddChangesNothing]_vars

\* C9 as amended: such a call fails, with InvalidArgument when the invoice
\* exists and with NotFound when it does not, and a failed add_payment
\* leaves the payment store and every invoice as they were.
C9_BadPaymentFails ==
    /\ [](\A iid \in InvoiceIdArgs, a \in Amounts, m \in MethodArgs :
            BadPayment(a, m)
            => AddPaymentError(iid, a, m) =
                  IF \E k \in 1..Len(invoices_db) :
                         ParseUUID(iid) = Some(invoices_db[k].invoice_id)
                  THEN InvalidArgument ELSE NotFound)
    /\ [][FailedAddChangesNothing]_vars

\* C9's case: a payment has just been refused as InvalidArgument on an
\* invoice that has payments.
C9_Witness ==
    /\ last.op = "add_payment" /\ last.outcome = InvalidArgument
    /\ PaymentsOf(payments_db, last.invoice) # <<>>

\* order_id is the id of an order in the store, by Python's ==
InOrderStore(oid) ==
    \E k \in 1..Len(orders_db) : oid.form = "uuid" /\ orders_db[k].order_id = oid.u
HasNoPrice(oid) ==
    \E k \in 1..Len(orders_db) :
        oid.form = "uuid" /\ orders_db[k].order_id = oid.u /\ orders_db[k].price = None

\* C10: create_invoice fails with NotFound when the order id is not in the
\* order store and with InvalidState when the order has no price, and in
\* both cases adds no invoice.
C10_CreateInvoiceFails ==
    \A oid \in OrderIdArgs, d \in DueDates :
        /\ ~InOrderStore(oid)
              => /\ CreateInvoiceError(oid) = NotFound
                 /\ InvoicesAfterCreate(oid, d, None) = invoices_db
        /\ HasNoPrice(oid)
              => /\ CreateInvoiceError(oid) = InvalidState
                 /\ InvoicesAfterCreate(oid, d, None) = invoices_db

\* C10's case: create_invoice has just failed with InvalidState for the
\* order in the store.
C10_Witness ==
    /\ last.op = "create_invoice" /\ last.outcome = InvalidState
    /\ Len(orders_db) = 1 /\ orders_db[1].price = None

\* the price of the order that order_id names, by Python's ==
PriceOf(oid) ==
    LET Hit(k) == oid.form = "uuid" /\ orders_db[k].order_id = oid.u
    IN  orders_db[CHOOSE k \in 1..Len(orders_db) : Hit(k)].price

\* a create_invoice that has succeeded has appended one invoice, a Draft,
\* and has changed no other invoice and no payment
CreatedOneDraft ==
    (last'.op = "create_invoice" /\ last'.outcome = "ok")
    => /\ Len(invoices_db') = Len(invoices_db) + 1
       /\ SubSeq(invoices_db', 1, Len(invoices_db)) = invoices_db
       /\ invoices_db'[Len(invoices_db')].status = STATUS_DRAFT
       /\ \A k \in 1..Len(invoices_db) :
             invoices_db[k].invoice_id # invoices_db'[Len(invoices_db')].invoice_id
       /\ payments_db' = payments_db

\* C11: a create_invoice that succeeds adds exactly one invoice, whose total
\* amount is the price the order has at that moment, whose status is Draft
\* and whose order reference is the order id given, and leaves the invoices
\* and the payments there were as they are.
C11_CreateInvoiceAddsDraft ==
    /\ [](\A oid \in OrderIdArgs, d \in DueDates :
            CreateInvoiceError(oid) = "ok"
            => LET after == InvoicesAfterCreate(oid, d, None)
                   new == after[Len(after)]
               IN  /\ Len(after) = Len(invoices_db) + 1
                   /\ new.order_id = oid
                   /\ Some(new.total_amount) = PriceOf(oid)
                   /\ new.status = STATUS_DRAFT)
    /\ [][CreatedOneDraft]_vars

\* C11's case: a second invoice has just been created for an order whose
\* price has changed since the first, which is still there with a payment.
C11_Witness ==
    /\ last.op = "create_invoice" /\ last.outcome = "ok"
    /\ Len(invoices_db) = 2 /\ Len(payments_db) > 0
    /\ invoices_db[1].order_id = invoices_db[2].order_id
    /\ invoices_db[1].total_amount = 100 /\ invoices_db[2].total_amount = 0

\* the id names an invoice of the store, however it is spelled
InInvoiceStore(iid) ==
    \E k \in 1..Len(invoices_db) : ParseUUID(iid) = Some(invoices_db[k].invoice_id)

\* an update_status that has ended as said has changed no invoice
UpdateStatusChangesNothing(outcome) ==
    (last'.op = "update_invoice_status" /\ last'.outcome = outcome)
    => invoices_db' = invoices_db

\* C12: update_status on an invoice of the store with a status outside the
\* enum fails with InvalidArgument and leaves the invoice's status, and every
\* invoice, as it was.
C12_BadStatusIsInvalidArgument ==
    /\ [](\A iid \in InvoiceIdArgs, st \in StatusArgs \ VALID_STATUSES :
            InInvoiceStore(iid)
            => /\ UpdateStatusOutcome(iid, st) = InvalidArgument
               /\ InvoicesAfterUpdateStatus(iid, st) = invoices_db)
    /\ [][UpdateStatusChangesNothing(InvalidArgument)]_vars

\* C12's case: a status outside the enum has just been refused for a
\* Cancelled invoice, which is still Cancelled.
C12_Witness ==
    /\ last.op = "update_invoice_status" /\ last.outcome = InvalidArgument
    /\ last.was = STATUS_CANCELLED
    /\ StatusOf(invoices_db, last.invoice) = STATUS_CANCELLED

\* C13 as stated: update_status with an invoice id that is not in the store
\* fails with NotFound, and no invoice's status changes.
C13_MissingInvoiceIsNotFound ==
    /\ [](\A iid \in InvoiceIdArgs, st \in StatusArgs :
            ~InInvoiceStore(iid)
            => /\ UpdateStatusOutcome(iid, st) = NotFound
               /\ InvoicesAfterUpdateStatus(iid, st) = invoices_db)
    /\ [][UpdateStatusChangesNothing(NotFound)]_vars

\* C13 as amended: such a call returns None, raising nothing, whatever the
\* new status, and no invoice's status changes.
C13_MissingInvoiceReturnsNone ==
    /\ [](\A iid \in InvoiceIdArgs, st \in StatusArgs :
            ~InInvoiceStore(iid)
            => /\ UpdateStatusOutcome(iid, st) = "None"
               /\ InvoicesAfterUpdateStatus(iid, st) = invoices_db)
    /\ [][UpdateStatusChangesNothing("None")]_vars

\* C13's case: update_status has just returned None while the store holds
\* another invoice.
C13_Witness ==
    /\ last.op = "update_invoice_status" /\ last.outcome = "None"
    /\ last.invoice = 0 /\ invoices_db # <<>>

\* C14: for every invoice of the store, whatever its status, payments and
\* due date, update_status with a status of the enum succeeds and the status
\* of the invoice is then the new one.
C14_AnyStatusToAnyStatus ==
    /\ [](\A iid \in InvoiceIdArgs, st \in VALID_STATUSES :
            InInvoiceStore(iid)
            => /\ UpdateStatusOutcome(iid, st) = "ok"
               /\ StatusOf(InvoicesAfterUpdateStatus(iid, st), Found(iid)) = st)
    /\ [][(last'.op = "update_invoice_status" /\ last'.outcome = "ok")
            => /\ StatusOf(invoices_db', last'.invoice) \in VALID_STATUSES
               /\ Len(invoices_db') = Len(invoices_db)]_vars

\* C14's case: an invoice that was Cancelled, is past its due date and has
\* payments has just been made a Draft.
C14_Witness ==
    /\ last.op = "update_invoice_status" /\ last.outcome = "ok"
    /\ last.was = STATUS_CANCELLED
    /\ LastInvoice.status = STATUS_DRAFT
    /\ LastInvoice.due_date < Today
    /\ LastPaid > 0

\* C15: every invoice of the store has a total amount of zero or more and a
\* status of the enum.
C15_InvoicesAreValid ==
    \A k \in 1..Len(invoices_db) :
        /\ invoices_db[k].total_amount >= 0
        /\ invoices_db[k].status \in VALID_STATUSES

\* C15's case: a status outside the enum has just been refused for an invoice
\* of amount zero that the reconciliation had made Paid.
C15_Witness ==
    /\ last.op = "update_invoice_status" /\ last.outcome = InvalidArgument
    /\ LastInvoice.total_amount = 0 /\ LastInvoice.status = STATUS_PAID

\* C16: every payment of the store has an amount greater than zero and a
\* payment method of the enum.
C16_PaymentsAreValid ==
    \A k \in 1..Len(payments_db) :
        /\ payments_db[k].amount_paid > 0
        /\ payments_db[k].payment_method \in VALID_PAYMENT_METHODS

\* C16's case: update_payment has just refused its arguments for a payment
\* of a store that holds a payment with an updated amount.
C16_Witness ==
    /\ last.op = "update_payment" /\ last.outcome = InvalidArgument
    /\ \E k \in 1..Len(payments_db) : payments_db[k].amount_paid = 10

\* the id is malformed, or names no record of the ids given
Unknown(db_ids, x) ==
    x.form = "bad" \/ \A k \in 1..Len(db_ids) : db_ids[k] # x.u

\* C17: get_invoice_by_id and get_payment_by_id, given an id that is malformed
\* or in no record of the store, return None and raise nothing, and no
\* lookup changes a store.
C17_LookupsReturnNone ==
    /\ [](/\ \A iid \in InvoiceIdArgs :
                Unknown(InvoiceIds, iid) => Lookup(InvoiceIds, iid) = "None"
          /\ \A pid \in PaymentIdArgs :
                Unknown(PaymentIds, pid) => Lookup(PaymentIds, pid) = "None")
    /\ [][last'.op \in {"get_invoice", "get_payment"}
            => /\ last'.outcome \in {"None", "found"}
               /\ invoices_db' = invoices_db
               /\ payments_db' = payments_db]_vars

\* C17's case: a lookup has just returned None while both stores hold
\* records.
C17_Witness ==
    /\ last.op \in {"get_invoice", "get_payment"} /\ last.outcome = "None"
    /\ invoices_db # <<>> /\ payments_db # <<>>

\* C18: delete_invoice returns True exactly when the id names an invoice of
\* the store; when it returns False both stores are as they were, and when
\* it returns True the invoice store has lost one invoice.
C18_DeleteInvoiceReturns ==
    /\ [](\A iid \in InvoiceIdArgs :
            DeleteInvoiceOutcome(iid) = IF InInvoiceStore(iid) THEN "True" ELSE "False")
    /\ [][last'.op = "delete_invoice"
            => IF last'.outcome = "False"
               THEN invoices_db' = invoices_db /\ payments_db' = payments_db
               ELSE /\ Len(invoices_db') = Len(invoices_db) - 1
                    /\ StatusOf(invoices_db', last'.invoice) = "-"]_vars

\* C18's case: delete_invoice has just returned False while both stores
\* hold records.
C18_Witness ==
    /\ last.op = "delete_invoice" /\ last.outcome = "False"
    /\ invoices_db # <<>> /\ payments_db # <<>>

\* C19: load_settings on a file that is absent or does not hold a JSON
\* object raises nothing and returns the default settings, and the file then
\* holds those defaults.
C19_LoadFallsBackToDefaults ==
    [][(last'.op = "load_settings" /\ settings_file.kind # "object")
          => /\ last'.outcome = "ok"
             /\ current_settings' = Some(DefaultSettings)
             /\ settings_file' = ObjectFile(to_dict(DefaultSettings))]_vars

\* C20: once the settings are loaded, update_setting with a key that is none
\* of the six fields returns None and leaves the settings object and the
\* file as they are.
C20_UnknownKeyChangesNothing ==
    current_settings # None
    => \A key \in KeyArgs \ Fields, value \in ValueArgs :
          /\ UpdateSettingOutcome(key, value) = "None"
          /\ SettingsAfterUpdate(key, value) = current_settings
          /\ FileAfterUpdate(key, value) = settings_file

\* the rule table of the reconciliation, row by row
RuleTable(status, sum, total, due) ==
    CASE status = STATUS_CANCELLED -> status
      [] status # STATUS_CANCELLED /\ sum >= total -> STATUS_PAID
      [] status # STATUS_CANCELLED /\ 0 < sum /\ sum < total -> STATUS_PARTIAL
      [] status # STATUS_CANCELLED /\ sum = 0 /\ sum < total ->
            IF due < Today /\ status # STATUS_DRAFT /\ status # STATUS_SENT
            THEN STATUS_OVERDUE
            ELSE IF status \in {STATUS_PAID, STATUS_PARTIAL} THEN STATUS_SENT
            ELSE status

\* C21: in every state, reconciling an invoice of the store leaves it with
\* the status the rule table gives for its status, the sum of the payments
\* that refer to it, its total amount and its due date: unchanged if
\* Cancelled, Paid if the sum is the total or more, Partial if it is between,
\* and with a sum of zero Overdue if the due date is before today and the
\* status neither Draft nor Sent, else Sent if the status is Paid or Partial,
\* else unchanged.  Every other invoice is left as it is.
C21_ReconcileFollowsRuleTable ==
    \A iid \in IdArgs(MaxInvoices, {"uuid"}) :
        InInvoiceStore(iid)
        => LET i == InvoiceIndex(invoices_db, iid)
               inv == invoices_db[i]
           IN  Reconciled(invoices_db, payments_db, iid) =
                  [invoices_db EXCEPT ![i].status =
                      RuleTable(inv.status, SumPaid(PaymentsOf(payments_db, iid.u)),
                                inv.total_amount, inv.due_date)]

\* C21's case: an invoice that was Paid, has no payment and is past its due
\* date has just been reconciled, and is Overdue.
C21_Witness ==
    /\ last.op = "reconcile" /\ last.invoice # 0
    /\ last.was = STATUS_PAID
    /\ LastPaid = 0 /\ LastInvoice.total_amount > 0 /\ LastInvoice.due_date < Today
    /\ LastInvoice.status = STATUS_OVERDUE

\* the two invoice stores hold the same invoices with the same status, total
\* amount, order reference and id
SameButDetails(after, before) ==
    /\ Len(after) = Len(before)
    /\ \A k \in 1..Len(before) :
          /\ after[k].status = before[k].status
          /\ after[k].total_amount = before[k].total_amount
          /\ after[k].order_id = before[k].order_id
          /\ after[k].invoice_id = before[k].invoice_id

\* C22: update_details, whatever its arguments and however it ends, leaves
\* the status, total amount, order reference and id of every invoice and
\* every payment as they were, also when it moves the due date of an invoice
\* without payments into the past; it leaves the due date alone when none is
\* given, and every field of every other invoice.
C22_UpdateDetailsFrame ==
    /\ [](\A iid \in InvoiceIdArgs, d \in DueDateArgs, n \in NotesArgs :
            LET after == InvoicesAfterUpdateDetails(iid, d, n)
            IN  /\ SameButDetails(after, invoices_db)
                /\ \A k \in 1..Len(invoices_db) :
                      /\ d = None => after[k].due_date = invoices_db[k].due_date
                      /\ k # InvoiceIndex(invoices_db, iid) => after[k] = invoices_db[k])
    /\ [][last'.op = "update_invoice_details"
            => /\ SameButDetails(invoices_db', invoices_db)
               /\ payments_db' = payments_db
               /\ orders_db' = orders_db]_vars

\* C22's case: update_details has just succeeded on an invoice that is Paid,
\* has no payment and is now past its due date.
C22_Witness ==
    /\ last.op = "update_invoice_details" /\ last.outcome = "ok"
    /\ LastInvoice.status = STATUS_PAID /\ last.was = STATUS_PAID
    /\ LastInvoice.due_date < Today
    /\ PaymentsOf(payments_db, last.invoice) = <<>>

\* C23: update_details with notes given as None and no due date, on an
\* invoice that has notes, leaves the invoice without notes and with the due
\* date it had.
C23_NotesNoneClearsNotes ==
    \A iid \in InvoiceIdArgs :
        LET i == InvoiceIndex(invoices_db, iid)
            after == InvoicesAfterUpdateDetails(iid, None, None)
        IN  (i # 0 /\ invoices_db[i].notes # None)
            => /\ after[i].notes = None
               /\ after[i].due_date = invoices_db[i].due_date

SettingsOps == {"load_settings", "update_setting", "set_theme", "set_language",
                "set_backup_enabled", "set_backup_location", "set_sync_frequency"}

\* the settings object can be serialized, and the file holds what
\* save_settings writes of it
FileIsSerialization ==
    /\ current_settings # None
    /\ SaveError(current_settings[1]) = "ok"
    /\ settings_file = FileAfterSave(current_settings[1])

\* C24: after every call of load_settings, update_setting or one of the five
\* setters, however it ends, the settings file holds the serialization of the
\* settings object in memory, and a call that is refused (update_setting
\* returning None, a setter printing its warning) changes neither the object
\* nor the file.
C24_FileMatchesSettings ==
    /\ [](last.op \in SettingsOps => FileIsSerialization)
    /\ [][(last'.op \in SettingsOps /\ last'.outcome \in {"None", "warned"})
            => /\ current_settings' = current_settings
               /\ settings_file' = settings_file]_vars

\* C25: every appointment of the store ends strictly after it starts, in
\* every state add_appointment and update_appointment reach, those after an
\* update that has raised included.
C25_AppointmentsEndAfterStart ==
    \A k \in 1..Len(appointments_db) :
        appointments_db[k].end_time > appointments_db[k].start_time

\* C25's case: update_appointment has just raised, and the store holds an
\* appointment whose times and title have been updated.
C25_Witness ==
    /\ last.op = "update_appointment" /\ last.outcome = InvalidArgument
    /\ \E k \in 1..Len(appointments_db) :
          /\ appointments_db[k].start_time = 10
          /\ appointments_db[k].end_time = 11
          /\ appointments_db[k].title = "Fitting of the suit"

\* C26: an update_payment that fails with InvalidArgument leaves the amount,
\* method, transaction id and notes of the payment, and every payment, as
\* they were before the call.
C26_FailedUpdatePaymentChangesNothing ==
    [][(last'.op = "update_payment" /\ last'.outcome = InvalidArgument)
          => payments_db' = payments_db]_vars

\* C27: every payment of the payment store refers to an invoice that is in
\* the invoice store.
C27_NoOrphanPayments ==
    \A k \in 1..Len(payments_db) : InInvoiceStore(payments_db[k].invoice_id)

\* invoice u and its payments are in the two stores after as before
Untouched(u) ==
    LET Hit(inv) == inv.invoice_id = u
        before == FirstIndex(invoices_db, Hit)
        after == FirstIndex(invoices_db', Hit)
    IN  /\ after # 0
        /\ invoices_db'[after] = invoices_db[before]
        /\ PaymentsOf(payments_db', u) = PaymentsOf(payments_db, u)

\* C28: add_payment, update_payment, delete_payment and delete_invoice,
\* however they end, leave every invoice other than the one they are called
\* for, or whose payment they are called for, in the store with its status,
\* total amount and due date, and leave its payments as they were.
C28_OtherInvoicesUntouched ==
    [][last'.op \in Mutations \cup {"delete_invoice"}
          => \A k \in 1..Len(invoices_db) :
                invoices_db[k].invoice_id # last'.invoice
                => Untouched(invoices_db[k].invoice_id)]_vars

\* C28's case: an invoice that had payments has just been deleted, and the
\* other invoice is there with payments of its own.
C28_Witness ==
    /\ last.op = "delete_invoice" /\ last.outcome = "True"
    /\ uuids.payment = MaxPayments
    /\ Len(invoices_db) = 1
    /\ Len(PaymentsOf(payments_db, invoices_db[1].invoice_id)) = 1
    /\ Len(payments_db) = 1

\* the total amount of invoice u, None when it is not in the store
TotalOf(db, u) ==
    LET Hit(inv) == inv.invoice_id = u
        i == FirstIndex(db, Hit)
    IN  IF i = 0 THEN None ELSE Some(db[i].total_amount)

\* C29: no call, of the order functions, the invoice functions or the
\* payment functions, changes the total amount of an invoice that is in the
\* store before and after it.
C29_TotalAmountIsFixed ==
    [][\A k \in 1..Len(invoices_db) :
          TotalOf(invoices_db', invoices_db[k].invoice_id)
              \in {None, Some(invoices_db[k].total_amount)}]_vars

\* C29's case: the order has just been deleted after its price had been
\* changed, and the store holds an invoice made at the first price and one
\* made at the second.
C29_Witness ==
    /\ last.op = "delete_order" /\ last.outcome = "True"
    /\ orders_db = <<>>
    /\ TotalOf(invoices_db, 1) = Some(100)
    /\ TotalOf(invoices_db, 2) = Some(0)

\* C30: in every state, reconciling an invoice of the store that is not
\* Cancelled and whose total amount is zero leaves it Paid, whatever its
\* status, its due date and its payments, none included.
C30_ZeroTotalIsPaid ==
    \A iid \in InvoiceIdArgs :
        LET i == InvoiceIndex(invoices_db, iid)
        IN  (/\ i # 0
             /\ invoices_db[i].total_amount = 0
             /\ invoices_db[i].status # STATUS_CANCELLED)
            => Reconciled(invoices_db, payments_db, iid)[i].status = STATUS_PAID

\* C30's case: a Draft invoice of amount zero without payments has just been
\* reconciled, and is Paid.
C30_Witness ==
    /\ last.op = "reconcile" /\ last.invoice # 0
    /\ last.was = STATUS_DRAFT
    /\ LastInvoice.total_amount = 0
    /\ PaymentsOf(payments_db, last.invoice) = <<>>
    /\ LastInvoice.status = STATUS_PAID

====
